---------------------------- MODULE Spec2Model ----------------------------
(***************************************************************************)
(* EG-Move: the ephemeral object store of src/test.py.                     *)
(*                                                                         *)
(* FILE_DB is a Python dict (insertion ordered), the storage directory is  *)
(* a map from paths to files.  The request handlers are `async def` bodies *)
(* without an await, so they run one at a time on the event loop; the      *)
(* reaper (monitor_expirations) is a real thread and the body of a         *)
(* StreamingResponse is read chunk by chunk after download_file returned,  *)
(* so both interleave with a handler between any two of its accesses to    *)
(* FILE_DB, the storage directory or the clock.                            *)
(***************************************************************************)
EXTENDS Integers, Sequences, FiniteSets, TLC

(***************************************************************************)
(* Program constants.                                                      *)
(***************************************************************************)
STORAGE_DIR == "storage"
\* duration * 60: seconds in one minute of retention
Minute == 60
\* time.time() + 600 in admin_toggle_expiry
DefaultWindow == 600
\* float('inf'): larger than every time the clock reaches
Inf == 1000000000
AllowedDurations == {10, 15, 30}
DefaultDuration == 10

(***************************************************************************)
(* Bounds of the model.                                                    *)
(***************************************************************************)
\* the clock advances in steps of TickStep seconds, MaxTicks times
MaxTicks == 2
TickStep == DefaultDuration * Minute
\* the number of uploads the model follows
MaxUploads == 2

\* outcomes of secrets.choice over six positions that the model draws from
RawCodes == { <<"A","A","A","A","A","A">>, <<"A","A","A","B","B","B">> }
\* client supplied file names
Filenames == { <<"f">> }
\* client supplied bodies
Bodies == { <<>>, <<1, 2>> }
\* requested retentions, in minutes (7 is not an allowed value)
DurationInputs == {7, 10}

(***************************************************************************)
(* Utilities.                                                              *)
(***************************************************************************)
\* a code with its hyphen after the second character
generate_code_split(raw) == SubSeq(raw, 1, 2) \o <<"-">> \o SubSeq(raw, 3, Len(raw))

\* f"{raw[:3]}-{raw[3:]}"
generate_code(raw) == SubSeq(raw, 1, 3) \o <<"-">> \o SubSeq(raw, 4, Len(raw))

\* str.replace(ch, "")
Remove(s, ch) == SelectSeq(s, LAMBDA x : x # ch)

\* str.upper() on the characters the model uses
UpperChar(ch) == CASE ch = "a" -> "A" [] ch = "b" -> "B" [] OTHER -> ch
Upper(s) == [i \in 1..Len(s) |-> UpperChar(s[i])]

normalize_code_input(user_input) ==
    LET clean == Upper(Remove(Remove(user_input, "-"), " "))
    IN  IF Len(clean) = 6
        THEN SubSeq(clean, 1, 3) \o <<"-">> \o SubSeq(clean, 4, 6)
        ELSE clean

\* a storage path made of the client's file name alone
file_path_flat(code, filename) == <<STORAGE_DIR, "/">> \o filename

\* os.path.join(STORAGE_DIR, f"{code.replace('-', '')}_{file.filename}")
file_path(code, filename) ==
    <<STORAGE_DIR, "/">> \o Remove(code, "-") \o <<"_">> \o filename

Codes == { generate_code(raw) : raw \in RawCodes }
Paths == { file_path(c, f) : c \in Codes, f \in Filenames }

(***************************************************************************)
(* The dict FILE_DB: a sequence of items in insertion order.               *)
(***************************************************************************)
Has(db, code) == \E i \in 1..Len(db) : db[i].code = code
Get(db, code) == db[CHOOSE i \in 1..Len(db) : db[i].code = code].meta
Keys(db) == [i \in 1..Len(db) |-> db[i].code]
Put(db, code, meta) ==
    IF Has(db, code)
    THEN [i \in 1..Len(db) |->
            IF db[i].code = code THEN [code |-> code, meta |-> meta] ELSE db[i]]
    ELSE Append(db, [code |-> code, meta |-> meta])
Del(db, code) == SelectSeq(db, LAMBDA e : e.code # code)

(***************************************************************************)
(* The storage directory.                                                  *)
(***************************************************************************)
NoFile == [exists |-> FALSE, data |-> <<>>]
File(data) == [exists |-> TRUE, data |-> data]

VARIABLES
    now,        \* time.time()
    FILE_DB,    \* the dict
    disk,       \* path -> file
    reaper,     \* the frame of monitor_expirations
    handler,    \* the frame of the request handler the event loop runs
    stream,     \* the body of the StreamingResponse being sent
    uploaded,   \* per code, the bodies of the uploads that returned it
    nUploads    \* the number of uploads so far

vars == <<now, FILE_DB, disk, reaper, handler, stream, uploaded, nUploads>>

(***************************************************************************)
(* An open file object of a StreamingResponse.  A file that is removed     *)
(* while open stays readable through the handle (detached); a handle that  *)
(* is still attached reads what the path holds now.                        *)
(***************************************************************************)
NoStream == [state |-> "none", path |-> <<>>, detached |-> FALSE,
             data |-> <<>>, got |-> <<>>, orig |-> <<>>, clobbered |-> FALSE,
             want |-> {}]

Attached(s, path) == s.state = "open" /\ ~s.detached /\ s.path = path

\* what the handle reads
View(s, dsk) == IF s.detached THEN s.data ELSE dsk[s.path].data

\* os.remove(path) succeeded: an open handle keeps the removed file
Unlinked(s, dsk, path) ==
    IF Attached(s, path)
    THEN [s EXCEPT !.detached = TRUE, !.data = dsk[path].data]
    ELSE s

\* open(path, "wb") or a write to path: an open handle sees the change
Clobbered(s, path) ==
    IF Attached(s, path) THEN [s EXCEPT !.clobbered = TRUE] ELSE s

(***************************************************************************)
(* cleanup_file(code), one access to FILE_DB or to the storage directory   *)
(* per step.  A frame is [pc, code, path]; every step yields the set of    *)
(* its outcomes [frame, db, dsk, st].  pc "ret" is the normal return and   *)
(* pc "raise" the KeyError that leaves the finally block.                  *)
(***************************************************************************)
NoFrame == [pc |-> "ret", code |-> <<>>, path |-> <<>>]
Call(code) == [pc |-> "chk", code |-> code, path |-> <<>>]

Same(f, pc, db, dsk, st) == [frame |-> [f EXCEPT !.pc = pc], db |-> db, dsk |-> dsk, st |-> st]

\* a removal that empties the file before it unlinks it, under an open handle too
os_remove_wipe(f, db, dsk, st) ==
    { Same(f, "fin_chk", db, dsk, st) }
    \cup
    IF dsk[f.path].exists
    THEN { [frame |-> [f EXCEPT !.pc = "fin_chk"], db |-> db,
            dsk |-> [dsk EXCEPT ![f.path] = NoFile],
            st |-> IF Attached(st, f.path)
                   THEN [st EXCEPT !.detached = TRUE, !.data = <<>>]
                   ELSE st] }
    ELSE {}

\* os.remove(meta["path"]): removes the file, or raises (the file is gone, or
\* the operating system refuses)
os_remove(f, db, dsk, st) ==
    { Same(f, "fin_chk", db, dsk, st) }
    \cup
    IF dsk[f.path].exists
    THEN { [frame |-> [f EXCEPT !.pc = "fin_chk"], db |-> db,
            dsk |-> [dsk EXCEPT ![f.path] = NoFile],
            st |-> Unlinked(st, dsk, f.path)] }
    ELSE {}

\* del FILE_DB[code]
del_item(f, db, dsk, st) ==
    IF Has(db, f.code)
    THEN { Same(f, "ret", Del(db, f.code), dsk, st) }
    ELSE { Same(f, "raise", db, dsk, st) }

cleanup_file(f, db, dsk, st) ==
    CASE f.pc = "chk" ->
            \* if code in FILE_DB:
            { Same(f, IF Has(db, f.code) THEN "get" ELSE "ret", db, dsk, st) }
      [] f.pc = "get" ->
            \* meta = FILE_DB[code]; a KeyError is caught and logged
            IF Has(db, f.code)
            THEN { [frame |-> [f EXCEPT !.pc = "exists", !.path = Get(db, f.code).path],
                    db |-> db, dsk |-> dsk, st |-> st] }
            ELSE { Same(f, "fin_chk", db, dsk, st) }
      [] f.pc = "exists" ->
            \* if os.path.exists(meta["path"]):
            { Same(f, IF dsk[f.path].exists THEN "remove" ELSE "fin_chk", db, dsk, st) }
      [] f.pc = "remove" -> os_remove(f, db, dsk, st)
      [] f.pc = "fin_chk" ->
            \* finally: if code in FILE_DB:
            { Same(f, IF Has(db, f.code) THEN "fin_del" ELSE "ret", db, dsk, st) }
      [] f.pc = "fin_del" -> del_item(f, db, dsk, st)
      [] OTHER -> {}

Returned(f) == f.pc \in {"ret", "raise"}

\* the bodies promised for a code are forgotten when its Entry is removed
Forget(up, db, db2) ==
    [c \in DOMAIN up |-> IF Has(db, c) /\ ~Has(db2, c) THEN {} ELSE up[c]]

(***************************************************************************)
(* monitor_expirations                                                     *)
(***************************************************************************)
ReaperIdle == [pc |-> "sleep", now |-> 0, snap |-> <<>>, code |-> <<>>,
               cl |-> NoFrame, err |-> "none"]

\* time.sleep(10); now = time.time()
reaper_wake ==
    /\ reaper.pc = "sleep"
    /\ reaper' = [reaper EXCEPT !.pc = "snap", !.now = now]
    /\ UNCHANGED <<now, FILE_DB, disk, handler, stream, uploaded, nUploads>>

\* list(FILE_DB.keys())
reaper_snapshot ==
    /\ reaper.pc = "snap"
    /\ reaper' = [reaper EXCEPT !.pc = "loop", !.snap = Keys(FILE_DB)]
    /\ UNCHANGED <<now, FILE_DB, disk, handler, stream, uploaded, nUploads>>

\* for code in ...: if code in FILE_DB:
reaper_next ==
    /\ reaper.pc = "loop"
    /\ IF reaper.snap = <<>>
       THEN reaper' = [ReaperIdle EXCEPT !.now = 0]
       ELSE LET code == Head(reaper.snap)
            IN  reaper' = [reaper EXCEPT !.snap = Tail(reaper.snap),
                             !.code = IF Has(FILE_DB, code) THEN code ELSE <<>>,
                             !.pc = IF Has(FILE_DB, code) THEN "read" ELSE "loop"]
    /\ UNCHANGED <<now, FILE_DB, disk, handler, stream, uploaded, nUploads>>

\* if expires_at != float('inf') and now > expires_at
Expired(expires_at, t) == expires_at # Inf /\ t > expires_at

\* expires_at = FILE_DB[code]["expires_at"]: a KeyError ends the thread
reaper_read ==
    /\ reaper.pc = "read"
    /\ IF Has(FILE_DB, reaper.code)
       THEN IF Expired(Get(FILE_DB, reaper.code).expires_at, reaper.now)
            THEN reaper' = [reaper EXCEPT !.pc = "cleanup", !.cl = Call(reaper.code)]
            ELSE reaper' = [reaper EXCEPT !.pc = "loop", !.code = <<>>]
       ELSE reaper' = [ReaperIdle EXCEPT !.pc = "dead", !.err = "read"]
    /\ UNCHANGED <<now, FILE_DB, disk, handler, stream, uploaded, nUploads>>

\* cleanup_file(code) in the reaper thread: a KeyError out of it ends the thread
reaper_cleanup ==
    /\ reaper.pc = "cleanup"
    /\ \E o \in cleanup_file(reaper.cl, FILE_DB, disk, stream) :
          /\ FILE_DB' = o.db
          /\ disk' = o.dsk
          /\ stream' = o.st
          /\ uploaded' = Forget(uploaded, FILE_DB, o.db)
          /\ reaper' = CASE o.frame.pc = "ret" ->
                              [reaper EXCEPT !.pc = "loop", !.code = <<>>, !.cl = NoFrame]
                         [] o.frame.pc = "raise" ->
                              [ReaperIdle EXCEPT !.pc = "dead", !.err = "del"]
                         [] OTHER -> [reaper EXCEPT !.cl = o.frame]
    /\ UNCHANGED <<now, handler, nUploads>>

(***************************************************************************)
(* The clock.                                                              *)
(***************************************************************************)
Tick ==
    /\ now < MaxTicks * TickStep
    /\ now' = now + TickStep
    /\ UNCHANGED <<FILE_DB, disk, reaper, handler, stream, uploaded, nUploads>>

(***************************************************************************)
(* Request handlers.                                                       *)
(***************************************************************************)
HandlerIdle == [op |-> "none", pc |-> "idle", arg |-> <<>>, code |-> <<>>,
                filename |-> <<>>, body |-> <<>>, requested |-> 0, duration |-> 0,
                path |-> <<>>,
                size |-> 0, expires_at |-> 0, t |-> 0, found |-> FALSE,
                cl |-> NoFrame, status |-> 0, err |-> "none", ret |-> 0]

\* the response: what the client is sent
Done(op, code, status, err) ==
    [HandlerIdle EXCEPT !.op = op, !.pc = "done", !.code = code,
                        !.status = status, !.err = err]

\* if duration not in [10, 15, 30]: duration = 10
clamp(duration) == IF duration \in AllowedDurations THEN duration ELSE DefaultDuration

\* upload_file: generate_code(), then open(file_path, "wb"), which creates the
\* file or truncates the one the path holds, or raises
upload_begin(raws, filenames, bodies, durations) ==
    /\ handler.pc = "idle"
    /\ nUploads < MaxUploads
    /\ nUploads' = nUploads + 1
    /\ \E raw \in raws, filename \in filenames, body \in bodies,
          duration \in durations, ok \in BOOLEAN :
         LET code == generate_code(raw)
             path == file_path(code, filename)
         IN  IF ok
             THEN /\ handler' = [HandlerIdle EXCEPT !.op = "upload", !.pc = "write",
                                   !.code = code, !.filename = filename,
                                   !.body = body, !.requested = duration,
                                   !.duration = clamp(duration), !.path = path]
                  /\ disk' = [disk EXCEPT ![path] = File(<<>>)]
                  /\ stream' = Clobbered(stream, path)
             ELSE /\ handler' = Done("upload", code, 500, "open")
                  /\ UNCHANGED <<disk, stream>>
    /\ UNCHANGED <<now, FILE_DB, reaper, uploaded>>

upload_open == upload_begin(RawCodes, Filenames, Bodies, DurationInputs)

\* shutil.copyfileobj(file.file, buffer): one chunk is written, or the write raises
upload_write ==
    /\ handler.op = "upload" /\ handler.pc = "write"
    /\ disk[handler.path].exists
    /\ Len(disk[handler.path].data) < Len(handler.body)
    /\ \/ /\ LET n == Len(disk[handler.path].data)
             IN  disk' = [disk EXCEPT ![handler.path] =
                                File(Append(disk[handler.path].data, handler.body[n + 1]))]
          /\ stream' = Clobbered(stream, handler.path)
          /\ UNCHANGED handler
       \/ /\ handler' = Done("upload", handler.code, 500, "write")
          /\ UNCHANGED <<disk, stream>>
    /\ UNCHANGED <<now, FILE_DB, reaper, uploaded, nUploads>>

\* file_size = os.path.getsize(file_path) once the body is copied; it raises when
\* the path holds no file (the file was removed under the upload, whose remaining
\* writes went to the removed file)
upload_getsize ==
    /\ handler.op = "upload" /\ handler.pc = "write"
    /\ IF disk[handler.path].exists
       THEN /\ Len(disk[handler.path].data) = Len(handler.body)
            /\ handler' = [handler EXCEPT !.pc = "insert",
                                          !.size = Len(disk[handler.path].data)]
       ELSE handler' = Done("upload", handler.code, 500, "getsize")
    /\ UNCHANGED <<now, FILE_DB, disk, reaper, stream, uploaded, nUploads>>

\* the dict literal of upload_file
Entry(path, filename, size, expires_at) ==
    [path |-> path, filename |-> filename, size |-> size, expires_at |-> expires_at]

\* expires_at = time.time() + duration * 60; FILE_DB[code] = {...}; return
upload_insert ==
    /\ handler.op = "upload" /\ handler.pc = "insert"
    /\ FILE_DB' = Put(FILE_DB, handler.code,
                      Entry(handler.path, handler.filename, handler.size,
                            now + handler.duration * Minute))
    /\ uploaded' = [uploaded EXCEPT ![handler.code] = @ \cup {handler.body}]
    /\ handler' = [Done("upload", handler.code, 200, "none") EXCEPT
                      !.ret = handler.duration * Minute]
    /\ UNCHANGED <<now, disk, reaper, stream, nUploads>>

\* a handler's call of cleanup_file(code) returned or raised: lazy eviction answers
\* 404, admin_delete answers "deleted", a KeyError out of cleanup_file answers 500
after_cleanup(h, f) ==
    IF f.pc = "raise"
    THEN [Done(h.op, h.code, 500, "del") EXCEPT
             !.found = h.found, !.expires_at = h.expires_at, !.t = h.t]
    ELSE [Done(h.op, h.code, IF h.op = "delete" THEN 200 ELSE 404,
               IF h.op = "delete" THEN "deleted" ELSE "expired") EXCEPT
             !.found = h.found, !.expires_at = h.expires_at, !.t = h.t]

\* one step of cleanup_file(code) in a handler
handler_cleanup ==
    /\ handler.pc = "cleanup"
    /\ \E o \in cleanup_file(handler.cl, FILE_DB, disk, stream) :
          /\ FILE_DB' = o.db
          /\ disk' = o.dsk
          /\ stream' = o.st
          /\ uploaded' = Forget(uploaded, FILE_DB, o.db)
          /\ handler' = IF Returned(o.frame)
                        THEN after_cleanup(handler, o.frame)
                        ELSE [handler EXCEPT !.cl = o.frame]
    /\ UNCHANGED <<now, reaper, nUploads>>

\* codes as clients type them
UserInputs == Codes \cup { <<"a","a","a","b","b","b">> }

\* get_file_info, download_file: code = normalize_code_input(code);
\* if code not in FILE_DB: raise 404
lookup_of(op, inputs) ==
    /\ handler.pc = "idle"
    /\ \E arg \in inputs :
         LET code == normalize_code_input(arg)
         IN  handler' = IF Has(FILE_DB, code)
                        THEN [HandlerIdle EXCEPT !.op = op, !.pc = "meta", !.code = code]
                        ELSE [Done(op, code, 404, "invalid") EXCEPT !.arg = arg]
    /\ UNCHANGED <<now, FILE_DB, disk, reaper, stream, uploaded, nUploads>>

lookup(op) == lookup_of(op, UserInputs)

info_lookup == lookup("info")

\* remaining = -1 for float('inf'), else meta["expires_at"] - time.time()
remaining(expires_at, t) == IF expires_at = Inf THEN -1 ELSE expires_at - t

\* the else branch of get_file_info: if remaining <= 0
NoTimeLeft(expires_at, t) == expires_at # Inf /\ remaining(expires_at, t) <= 0

\* "expires_in_seconds": int(remaining) if remaining != -1 else -1
expires_in_seconds(rem) == IF rem # -1 THEN rem ELSE -1

\* get_file_info: meta = FILE_DB[code] (a KeyError answers 500), the expiry check,
\* and the metadata of an Entry that has time left
info_meta ==
    /\ handler.op = "info" /\ handler.pc = "meta"
    /\ IF ~Has(FILE_DB, handler.code)
       THEN handler' = Done("info", handler.code, 500, "meta")
       ELSE LET meta == Get(FILE_DB, handler.code)
            IN  IF NoTimeLeft(meta.expires_at, now)
                THEN handler' = [handler EXCEPT !.pc = "cleanup", !.cl = Call(handler.code),
                                   !.expires_at = meta.expires_at, !.t = now]
                ELSE handler' = [Done("info", handler.code, 200, "none") EXCEPT
                                   !.expires_at = meta.expires_at, !.t = now,
                                   !.ret = expires_in_seconds(remaining(meta.expires_at, now))]
    /\ UNCHANGED <<now, FILE_DB, disk, reaper, stream, uploaded, nUploads>>

\* one response body is followed at a time
download_lookup == stream.state = "none" /\ lookup("download")

\* download_file: meta = FILE_DB[code] (a KeyError answers 500) and the expiry check
download_meta ==
    /\ handler.op = "download" /\ handler.pc = "meta"
    /\ IF ~Has(FILE_DB, handler.code)
       THEN handler' = Done("download", handler.code, 500, "meta")
       ELSE LET meta == Get(FILE_DB, handler.code)
            IN  handler' = [handler EXCEPT
                              !.pc = IF Expired(meta.expires_at, now) THEN "cleanup" ELSE "open",
                              !.cl = IF Expired(meta.expires_at, now)
                                     THEN Call(handler.code) ELSE NoFrame,
                              !.path = meta.path,
                              !.expires_at = meta.expires_at, !.t = now]
    /\ UNCHANGED <<now, FILE_DB, disk, reaper, stream, uploaded, nUploads>>

\* StreamingResponse(open(meta["path"], "rb"), ...): a missing file answers 500.
\* follow: whether the model goes on to read the response body
open_response(follow) ==
    /\ handler.op = "download" /\ handler.pc = "open"
    /\ IF disk[handler.path].exists
       THEN /\ stream' = IF follow
                         THEN [NoStream EXCEPT !.state = "open", !.path = handler.path,
                                               !.orig = disk[handler.path].data,
                                               !.want = uploaded[handler.code]]
                         ELSE stream
            /\ handler' = [Done("download", handler.code, 200, "none") EXCEPT
                              !.expires_at = handler.expires_at, !.t = handler.t]
       ELSE /\ handler' = [Done("download", handler.code, 500, "open") EXCEPT
                              !.expires_at = handler.expires_at, !.t = handler.t]
            /\ UNCHANGED stream
    /\ UNCHANGED <<now, FILE_DB, disk, reaper, uploaded, nUploads>>

download_open == open_response(FALSE)
download_stream == open_response(TRUE)

\* the server reads the next chunk of the response body, or its end
stream_read ==
    /\ stream.state = "open"
    /\ LET view == View(stream, disk)
           n == Len(stream.got)
       IN  stream' = IF n < Len(view)
                     THEN [stream EXCEPT !.got = Append(stream.got, view[n + 1])]
                     ELSE [stream EXCEPT !.state = "done"]
    /\ UNCHANGED <<now, FILE_DB, disk, reaper, handler, uploaded, nUploads>>

\* the response body has been sent
stream_close ==
    /\ stream.state = "done"
    /\ stream' = NoStream
    /\ UNCHANGED <<now, FILE_DB, disk, reaper, handler, uploaded, nUploads>>

\* admin_delete (of an authenticated admin): cleanup_file(code), the code as given
admin_delete_of(inputs) ==
    /\ handler.pc = "idle"
    /\ \E code \in inputs :
         \E o \in cleanup_file(Call(code), FILE_DB, disk, stream) :
            LET h == [HandlerIdle EXCEPT !.op = "delete", !.pc = "cleanup",
                         !.code = code, !.found = Has(FILE_DB, code), !.cl = o.frame]
            IN  handler' = IF Returned(o.frame) THEN after_cleanup(h, o.frame) ELSE h
    /\ UNCHANGED <<now, FILE_DB, disk, reaper, stream, uploaded, nUploads>>

admin_delete == admin_delete_of(UserInputs)

\* admin_toggle_expiry (of an authenticated admin): if code in FILE_DB, else 404
toggle_lookup ==
    /\ handler.pc = "idle"
    /\ \E code \in UserInputs :
         handler' = IF Has(FILE_DB, code)
                    THEN [HandlerIdle EXCEPT !.op = "toggle", !.pc = "read", !.code = code]
                    ELSE Done("toggle", code, 404, "missing")
    /\ UNCHANGED <<now, FILE_DB, disk, reaper, stream, uploaded, nUploads>>

\* if FILE_DB[code]["expires_at"] == float('inf'): a KeyError answers 500
toggle_read ==
    /\ handler.op = "toggle" /\ handler.pc = "read"
    /\ handler' = IF Has(FILE_DB, handler.code)
                  THEN [handler EXCEPT !.pc = "write",
                           !.expires_at = Get(FILE_DB, handler.code).expires_at]
                  ELSE Done("toggle", handler.code, 500, "read")
    /\ UNCHANGED <<now, FILE_DB, disk, reaper, stream, uploaded, nUploads>>

\* a toggle that re-arms the deadline of a timed Entry instead of lifting it
toggled_rearm(expires_at, t) == t + DefaultWindow

\* the value admin_toggle_expiry stores: time.time() + 600 for an infinite Entry,
\* float('inf') for a timed one
toggled(expires_at, t) == IF expires_at = Inf THEN t + DefaultWindow ELSE Inf

\* FILE_DB[code]["expires_at"] = ...: a KeyError answers 500
toggle_write ==
    /\ handler.op = "toggle" /\ handler.pc = "write"
    /\ IF Has(FILE_DB, handler.code)
       THEN /\ FILE_DB' = Put(FILE_DB, handler.code,
                              [Get(FILE_DB, handler.code) EXCEPT
                                  !.expires_at = toggled(handler.expires_at, now)])
            /\ handler' = [Done("toggle", handler.code, 200, "none") EXCEPT
                              !.expires_at = handler.expires_at, !.t = now]
       ELSE /\ handler' = Done("toggle", handler.code, 500, "write")
            /\ UNCHANGED FILE_DB
    /\ UNCHANGED <<now, disk, reaper, stream, uploaded, nUploads>>

\* the response has been sent: the event loop takes the next request
respond ==
    /\ handler.pc = "done"
    /\ handler' = HandlerIdle
    /\ UNCHANGED <<now, FILE_DB, disk, reaper, stream, uploaded, nUploads>>

Init ==
    /\ now = 0
    /\ FILE_DB = <<>>
    /\ disk = [p \in Paths |-> NoFile]
    /\ reaper = ReaperIdle
    /\ handler = HandlerIdle
    /\ stream = NoStream
    /\ uploaded = [c \in Codes |-> {}]
    /\ nUploads = 0

\* the reaper thread
Reaper ==
    \/ reaper_wake
    \/ reaper_snapshot
    \/ reaper_next
    \/ reaper_read
    \/ reaper_cleanup

\* upload_file
Upload ==
    \/ upload_open
    \/ upload_write
    \/ upload_getsize
    \/ upload_insert

\* The store under its handlers, the reaper and the clock; response bodies are
\* not followed.
Next ==
    \/ Tick
    \/ Reaper
    \/ Upload
    \/ info_lookup
    \/ info_meta
    \/ download_lookup
    \/ download_meta
    \/ download_open
    \/ admin_delete
    \/ toggle_lookup
    \/ toggle_read
    \/ toggle_write
    \/ handler_cleanup
    \/ respond

Spec == Init /\ [][Next]_vars

\* Uploads, downloads whose response body is read chunk by chunk, and every
\* eviction path: the reaper, the lazy eviction of download_file, admin_delete.
NextStream ==
    \/ Tick
    \/ Reaper
    \/ Upload
    \/ download_lookup
    \/ download_meta
    \/ download_stream
    \/ stream_read
    \/ stream_close
    \/ admin_delete
    \/ handler_cleanup
    \/ respond

SpecStream == Init /\ [][NextStream]_vars

(***************************************************************************)
(* The sweep under fair scheduling: the reaper thread is scheduled again   *)
(* and again, the clock advances, and a handler that has started runs to   *)
(* its response.  Whether a client sends a request at all is left open.    *)
(***************************************************************************)
Handling ==
    \/ upload_write
    \/ upload_getsize
    \/ upload_insert
    \/ handler_cleanup
    \/ respond

NextSweep ==
    \/ Tick
    \/ Reaper
    \/ upload_open
    \/ admin_delete
    \/ Handling

SpecSweep ==
    Init /\ [][NextSweep]_vars /\ WF_vars(Reaper) /\ WF_vars(Tick) /\ WF_vars(Handling)

(***************************************************************************)
(* Codes as generate_code formats them and as clients type them, looked up *)
(* in the empty store: get_file_info normalizes the code it is given and   *)
(* answers 404.                                                            *)
(***************************************************************************)
\* characters of string.ascii_uppercase + string.digits
Alphabet == {"A", "B", "0", "7"}
\* length=6
CodeLength == 6
GeneratedCodes == { generate_code(raw) : raw \in [1..CodeLength -> Alphabet] }

\* characters a client types: a lowercase letter, a digit, the hyphen, the
\* space and the tab
Typed == {"a", "7", "-", " ", "\t"}
MaxTypedLen == 7
TypedInputs == UNION { [1..n -> Typed] : n \in 0..MaxTypedLen }

info_generated == lookup_of("info", GeneratedCodes)
info_typed == lookup_of("info", TypedInputs)

NextCodes ==
    \/ info_generated
    \/ info_typed
    \/ respond

SpecCodes == Init /\ [][NextCodes]_vars

(***************************************************************************)
(* upload_file over more of its inputs: codes with digits, file names that *)
(* look like parts of a storage path, every allowed retention and          *)
(* retentions that are not allowed.                                        *)
(***************************************************************************)
AnyRawCodes == { <<"A","A","A","A","A","A">>, <<"A","A","A","A","A","B">>,
                 <<"7","B","0","A","7","7">> }
AnyFilenames == { <<"f">>, <<"B","_","f">> }
AnyBodies == { <<1>> }
AnyDurations == {10, 14, 15, 30}

AnyCodes == { generate_code(raw) : raw \in AnyRawCodes }
AnyPaths == { file_path(c, f) : c \in AnyCodes, f \in AnyFilenames }

upload_any == upload_begin(AnyRawCodes, AnyFilenames, AnyBodies, AnyDurations)
admin_delete_any == admin_delete_of(AnyCodes)

InitUpload ==
    /\ now = 0
    /\ FILE_DB = <<>>
    /\ disk = [p \in AnyPaths |-> NoFile]
    /\ reaper = ReaperIdle
    /\ handler = HandlerIdle
    /\ stream = NoStream
    /\ uploaded = [c \in AnyCodes |-> {}]
    /\ nUploads = 0

NextUpload ==
    \/ Tick
    \/ upload_any
    \/ upload_write
    \/ upload_getsize
    \/ upload_insert
    \/ admin_delete_any
    \/ handler_cleanup
    \/ respond

SpecUpload == InitUpload /\ [][NextUpload]_vars
(***************************************************************************)
(* The claims.                                                             *)
(***************************************************************************)
HandlerStep == handler' # handler
Answered(op) == handler.pc = "done" /\ handler.op = op

\* C1: there is one Entry per code, and a step of upload_file never replaces or
\* changes an Entry that is in FILE_DB and has time left: a code that
\* generate_code returns while it is a key of FILE_DB is regenerated, not
\* overwritten.
C1_UploadNeverOverwrites ==
    [][ /\ \A i, j \in 1..Len(FILE_DB') : FILE_DB'[i].code = FILE_DB'[j].code => i = j
        /\ (handler.op = "upload" /\ HandlerStep) =>
              \A c \in Codes :
                  (Has(FILE_DB, c) /\ ~Expired(Get(FILE_DB, c).expires_at, now)
                                  /\ ~NoTimeLeft(Get(FILE_DB, c).expires_at, now)) =>
                      Has(FILE_DB', c) /\ Get(FILE_DB', c) = Get(FILE_DB, c) ]_vars

\* C2: no get_file_info and no download_file that reads the clock at or after the
\* deadline of a timed Entry answers with the metadata or the byte stream.
C2_ExpiredNeverServed ==
    (handler.pc = "done" /\ handler.op \in {"info", "download"} /\ handler.status = 200
        /\ handler.expires_at # Inf)
    => handler.t < handler.expires_at

\* C3: a response body that download_file opened for a code delivers, when it has
\* been read to its end, exactly the body of every upload that returned that code
\* and whose Entry has not been removed since.
C3_RoundTrip ==
    stream.state = "done" => \A body \in stream.want : stream.got = body

\* C4: admin_delete of a code that is not in the store answers NotFound.
C4_DeleteAbsentIsNotFound ==
    (Answered("delete") /\ ~handler.found) => handler.status = 404

\* C5: admin_toggle_expiry stores (the time it reads + DefaultWindow) for an Entry
\* whose expiry it read as infinite and infinite for one it read as timed, so a
\* second toggle restores infinite; get_file_info reports -1 exactly for an
\* infinite Entry, and a value >= 0 for a timed one.
C5_ToggleAndInfo ==
    /\ (Answered("toggle") /\ handler.status = 200 /\ Has(FILE_DB, handler.code)) =>
          LET new == Get(FILE_DB, handler.code).expires_at
          IN  /\ handler.expires_at = Inf => new = handler.t + DefaultWindow /\ new # Inf
              /\ handler.expires_at # Inf => new = Inf
    /\ (Answered("info") /\ handler.status = 200) =>
          /\ handler.ret = -1 <=> handler.expires_at = Inf
          /\ handler.expires_at # Inf => handler.ret >= 0

\* a toggle of an infinite Entry has made it timed, with the fresh deadline
C5_Witness ==
    /\ Answered("toggle") /\ handler.status = 200 /\ handler.expires_at = Inf
    /\ handler.t > 0
    /\ Has(FILE_DB, handler.code)
    /\ Get(FILE_DB, handler.code).expires_at = handler.t + DefaultWindow

\* C6: eviction is a single unit: whenever an Entry leaves FILE_DB, its blob has
\* left the storage directory, also when the deletion of the blob failed.
C6_EvictionIsAUnit ==
    [][ \A c \in Codes :
          (Has(FILE_DB, c) /\ ~Has(FILE_DB', c)) => ~disk'[Get(FILE_DB, c).path].exists ]_vars

\* C7: when an upload has failed and no eviction is in progress, every Entry of
\* FILE_DB points at a blob that exists and is as long as the Entry records.
C7_FailedUploadHarmsNoEntry ==
    (Answered("upload") /\ handler.status = 500 /\ reaper.pc # "cleanup") =>
        \A i \in 1..Len(FILE_DB) :
            LET meta == FILE_DB[i].meta
            IN  disk[meta.path].exists /\ Len(disk[meta.path].data) = meta.size

\* C8: a response body that has been read to its end, and whose file no upload
\* wrote to meanwhile, is the content the file had when download_file opened it,
\* whatever evictions ran while it was read.
C8_StreamSurvivesEviction ==
    (stream.state = "done" /\ ~stream.clobbered) => stream.got = stream.orig

\* a body of two chunks was read to its end although its file was removed while
\* the response was open
C8_Witness ==
    /\ stream.state = "done" /\ stream.detached /\ ~stream.clobbered
    /\ Len(stream.orig) = 2 /\ stream.got = stream.orig
    /\ ~disk[stream.path].exists

\* C9: no call of cleanup_file raises to its caller, neither in the reaper thread
\* nor in a handler.
C9_CleanupNeverRaises ==
    reaper.err # "del" /\ ~(handler.pc = "done" /\ handler.err = "del")

\* C10: the reaper thread never terminates.
C10_ReaperNeverStops == reaper.pc # "dead"

ReaperStep == reaper' # reaper

\* C11: no step of the reaper thread removes an Entry whose expires_at is the
\* never-expires sentinel at that moment, whatever admin_toggle_expiry did
\* since the reaper read the Entry.
C11_ReaperSkipsInfinite ==
    [][ ReaperStep =>
          \A c \in Codes :
              (Has(FILE_DB, c) /\ Get(FILE_DB, c).expires_at = Inf) => Has(FILE_DB', c) ]_vars

\* C12: a code as generate_code formats it is a fixed point of
\* normalize_code_input: the code a handler looks up is the code it was given.
C12_GeneratedCodeIsFixedPoint ==
    (handler.pc = "done" /\ handler.arg \in GeneratedCodes) => handler.code = handler.arg

\* a generated code of letters and digits was looked up under its own name
C12_Witness ==
    /\ Answered("info") /\ handler.arg = <<"7", "B", "0", "-", "A", "7", "7">>
    /\ handler.code = handler.arg

\* what the claim says normalize_code_input returns: the input without hyphens
\* and whitespace, in upper case, with the hyphen after the third character
\* exactly when six characters are left
Whitespace == {" ", "\t"}
Cleaned(s) == Upper(SelectSeq(s, LAMBDA x : x # "-" /\ x \notin Whitespace))
Canonical(s) ==
    IF Len(Cleaned(s)) = CodeLength
    THEN SubSeq(Cleaned(s), 1, 3) \o <<"-">> \o SubSeq(Cleaned(s), 4, CodeLength)
    ELSE Cleaned(s)

\* C13: the code a handler looks up is its argument without hyphens and
\* whitespace, in upper case, with the hyphen put back exactly when six
\* characters are left; normalizing it again changes nothing, so arguments that
\* differ only in case, hyphens or whitespace are looked up as the same code.
C13_NormalizeCleansAndFormats ==
    handler.pc = "done" =>
        /\ handler.code = Canonical(handler.arg)
        /\ normalize_code_input(handler.code) = handler.code

\* C14: no two Entries of FILE_DB have the same storage path, whatever file
\* names the uploads carried.
C14_NoSharedStoragePath ==
    \A i, j \in 1..Len(FILE_DB) :
        FILE_DB[i].meta.path = FILE_DB[j].meta.path => i = j

\* two Entries are live whose codes differ in their last character only, the
\* one uploaded under a file name that starts with an underscore-separated
\* character, the other under the rest of that name
C14_Witness ==
    \E i, j \in 1..Len(FILE_DB) :
        /\ FILE_DB[i].code = <<"A", "A", "A", "-", "A", "A", "A">>
        /\ FILE_DB[i].meta.filename = <<"B", "_", "f">>
        /\ FILE_DB[j].code = <<"A", "A", "A", "-", "A", "A", "B">>
        /\ FILE_DB[j].meta.filename = <<"f">>
        /\ disk[FILE_DB[i].meta.path].exists /\ disk[FILE_DB[j].meta.path].exists

\* the allowed retention nearest to the requested one
Distance(a, b) == IF a > b THEN a - b ELSE b - a
Nearest(d) ==
    CHOOSE a \in AllowedDurations : \A b \in AllowedDurations : Distance(d, a) <= Distance(d, b)

\* C15: an upload is never rejected for its retention: the Entry it inserts
\* expires at (the time of the insertion + the allowed retention nearest to the
\* requested one, in seconds), and the response's expires_in is that retention.
C15_RetentionIsNearestAllowed ==
    [][ (handler.op = "upload" /\ handler.pc = "insert" /\ HandlerStep) =>
          LET chosen == Nearest(handler.requested) * Minute
          IN  /\ handler'.status = 200
              /\ handler'.ret = chosen
              /\ Has(FILE_DB', handler.code)
              /\ Get(FILE_DB', handler.code).expires_at = now + chosen ]_vars

\* C16: at every time and for every Entry of the store, get_file_info finds the
\* Entry out of time (answers 404 and evicts it) exactly when download_file
\* finds it expired (answers 404 and evicts it).
C16_SameExpiryCheck ==
    \A i \in 1..Len(FILE_DB) :
        NoTimeLeft(FILE_DB[i].meta.expires_at, now) <=> Expired(FILE_DB[i].meta.expires_at, now)

\* the deadlines an upload of the model can set
Deadlines == { k * TickStep + DefaultDuration * Minute : k \in 0..MaxTicks }
Live(c, p, d) == Has(FILE_DB, c) /\ Get(FILE_DB, c).path = p /\ Get(FILE_DB, c).expires_at = d
Owned(p) == \E i \in 1..Len(FILE_DB) : FILE_DB[i].meta.path = p

\* C17: under fair scheduling of the reaper thread, a timed Entry whose deadline
\* has passed is eventually out of FILE_DB and its blob out of the storage
\* directory (unless a later upload owns the path), whether or not a client
\* reads its code.
C17_SweepIsLive ==
    \A c \in Codes : \A p \in Paths : \A d \in Deadlines :
        (Live(c, p, d) /\ Expired(d, now))
        ~> (~Live(c, p, d) /\ (disk[p].exists => Owned(p)))

\* C18: get_file_info, download_file and admin_toggle_expiry end in success or
\* in NotFound, whatever the reaper thread does between their steps.
C18_OnlySpecifiedOutcomes ==
    (handler.pc = "done" /\ handler.op \in {"info", "download", "toggle"}) =>
        handler.status \in {200, 404}

\* C19: while a code stays in FILE_DB its path, filename and size do not change
\* and its expires_at changes only in a step of admin_toggle_expiry on that
\* code; a step of admin_toggle_expiry, admin_delete, get_file_info or
\* download_file on a code leaves the Entry of every other code as it is.
C19_EntryFrame ==
    [][ /\ \A c \in Codes :
              (Has(FILE_DB, c) /\ Has(FILE_DB', c)) =>
                  LET old == Get(FILE_DB, c)
                      new == Get(FILE_DB', c)
                  IN  /\ new.path = old.path
                      /\ new.filename = old.filename
                      /\ new.size = old.size
                      /\ new.expires_at # old.expires_at =>
                            (HandlerStep /\ handler.op = "toggle" /\ handler.code = c)
        /\ (HandlerStep /\ handler.op \in {"toggle", "delete", "info", "download"}) =>
              \A c \in Codes \ {handler.code} :
                  Has(FILE_DB, c) => (Has(FILE_DB', c) /\ Get(FILE_DB', c) = Get(FILE_DB, c)) ]_vars

\* C20: an Entry whose deadline has not passed when it is removed (the clock is
\* before its expires_at) is removed by admin_delete only: never by the reaper
\* thread and never by the lazy eviction of get_file_info or download_file.
C20_NoPrematureEviction ==
    [][ \A c \in Codes :
          (Has(FILE_DB, c) /\ ~Has(FILE_DB', c) /\ now < Get(FILE_DB, c).expires_at) =>
              (HandlerStep /\ handler.op = "delete") ]_vars

=============================================================================
